---- MODULE Spec2Model ----
(***************************************************************************)
(* saba_core::http - HttpResponse::new (the HTTP response parser) and      *)
(* HttpResponse::header_value, modelled over texts that are sequences of   *)
(* one-character strings.                                                  *)
(***************************************************************************)
EXTENDS Integers, Sequences, FiniteSets, TLC

VARIABLES raw, pc, res, lookup

vars == <<raw, pc, res, lookup>>

----------------------------------------------------------------------------
(* Bounds of the checked input space.                                      *)

\* longest text of the exhaustive input family (every text over Alphabet)
MaxLen == 6
\* most header lines of a text of the structured input family
MaxHeaderLines == 2

----------------------------------------------------------------------------
(* Texts.                                                                  *)

Alphabet == {" ", "\n", "\r", ":", "1", "a"}

Digits == {"0", "1", "2", "3", "4", "5", "6", "7", "8", "9"}

\* status_code: u32, held as two 16-bit limbs <<hi, lo>> of value
\* hi * LimbBase + lo
LimbBase == 65536

\* char::is_whitespace, restricted to the characters the inputs use
IsWhitespace(c) == c \in {" ", "\n", "\r", "\t"}

DropFirst(s, n) == SubSeq(s, n + 1, Len(s))

\* s starts with pat
StartsWith(s, pat) == Len(s) >= Len(pat) /\ SubSeq(s, 1, Len(pat)) = pat

\* str::trim_start
RECURSIVE TrimStart(_)
TrimStart(s) ==
    IF s # <<>> /\ IsWhitespace(Head(s)) THEN TrimStart(Tail(s)) ELSE s

\* str::trim_end
RECURSIVE TrimEnd(_)
TrimEnd(s) ==
    IF s # <<>> /\ IsWhitespace(s[Len(s)])
    THEN TrimEnd(SubSeq(s, 1, Len(s) - 1))
    ELSE s

\* trim_start() in the place of trim()
TrimStartOnly(s) == TrimStart(s)

\* str::trim
Trim(s) == TrimEnd(TrimStart(s))

\* str::replace(pat, to): non-overlapping matches, left to right; the
\* replacement text is not scanned again
RECURSIVE Replace(_, _, _)
Replace(s, pat, to) ==
    IF s = <<>> THEN <<>>
    ELSE IF StartsWith(s, pat) THEN to \o Replace(DropFirst(s, Len(pat)), pat, to)
    ELSE <<Head(s)>> \o Replace(Tail(s), pat, to)

\* str::find: index of the first match of pat in s, 0 for None
RECURSIVE FindFrom(_, _, _)
FindFrom(s, pat, i) ==
    IF i + Len(pat) - 1 > Len(s) THEN 0
    ELSE IF SubSeq(s, i, i + Len(pat) - 1) = pat THEN i
    ELSE FindFrom(s, pat, i + 1)

Find(s, pat) == FindFrom(s, pat, 1)

\* str::split_once: <<>> for None, <<before, after>> for Some
SplitOnce(s, pat) ==
    LET i == Find(s, pat)
    IN  IF i = 0 THEN <<>>
        ELSE <<SubSeq(s, 1, i - 1), DropFirst(s, i + Len(pat) - 1)>>

\* str::split(pat).collect(): always at least one piece
RECURSIVE Split(_, _)
Split(s, pat) ==
    LET i == Find(s, pat)
    IN  IF i = 0 THEN <<s>>
        ELSE <<SubSeq(s, 1, i - 1)>> \o Split(DropFirst(s, i + Len(pat) - 1), pat)

\* str::splitn(2, pat).collect(): one piece without a match, else two
SplitN2(s, pat) ==
    LET i == Find(s, pat)
    IN  IF i = 0 THEN <<s>>
        ELSE <<SubSeq(s, 1, i - 1), DropFirst(s, i + Len(pat) - 1)>>

DigitValue(c) ==
    CASE c = "0" -> 0 [] c = "1" -> 1 [] c = "2" -> 2 [] c = "3" -> 3
      [] c = "4" -> 4 [] c = "5" -> 5 [] c = "6" -> 6 [] c = "7" -> 7
      [] c = "8" -> 8 [] c = "9" -> 9

\* the digits accumulated into the u32 <<hi, lo>>, checked_mul(10) and
\* checked_add(digit) at each one: <<>> as soon as the value leaves u32
RECURSIVE AccumulateU32(_, _, _)
AccumulateU32(ds, hi, lo) ==
    IF ds = <<>> THEN <<hi, lo>>
    ELSE LET l == lo * 10 + DigitValue(Head(ds))
             h == hi * 10 + (l \div LimbBase)
         IN  IF h >= LimbBase THEN <<>>
             ELSE AccumulateU32(Tail(ds), h, l % LimbBase)

\* str::parse::<u32>: <<>> for Err; an optional leading '+', then digits only
ParseU32(tok) ==
    LET ds == IF tok # <<>> /\ Head(tok) = "+" THEN Tail(tok) ELSE tok
    IN  IF ds = <<>> \/ \E i \in 1..Len(ds) : ds[i] \notin Digits
        THEN <<>>
        ELSE AccumulateU32(ds, 0, 0)

----------------------------------------------------------------------------
(* HttpResponse::new.                                                      *)

\* Header::new
Header(name, value) == [name |-> name, value |-> value]

\* raw_response.trim_start().replace("\n\r", "\n")
Preprocess(r) == Replace(TrimStart(r), <<"\n", "\r">>, <<"\n">>)

InvalidPrefix ==
    <<"i", "n", "v", "a", "l", "i", "d", " ", "h", "t", "t", "p", " ",
      "r", "e", "s", "p", "o", "n", "s", "e", ":", " ">>

\* Err(Error::Network(format!("invalid http response: {}", ..)))
NetworkError(text) ==
    [kind |-> "Err", error |-> "Network", msg |-> InvalidPrefix \o text]

\* an uncontrolled fault: an index out of range or an unwrap of Err
Panic(at) == [kind |-> "Panic", at |-> at]

\* the line split at its last ':' (rsplitn) in the place of its first
HeaderOfLineLastColon(line) ==
    LET colons == {i \in 1..Len(line) : line[i] = ":"}
        last == CHOOSE i \in colons : \A j \in colons : j <= i
    IN  IF colons = {} THEN Panic("splitted_headers[1]")
        ELSE Header(Trim(SubSeq(line, 1, last - 1)), Trim(DropFirst(line, last)))

\* one turn of the header loop: the header of one line, or the fault of
\* splitted_headers[1] on a line without ':'
HeaderOfLine(line) ==
    LET splitted_headers == SplitN2(line, <<":">>)
    IN  IF Len(splitted_headers) < 2 THEN Panic("splitted_headers[1]")
        ELSE Header(Trim(splitted_headers[1]), Trim(splitted_headers[2]))

\* the header loop over h.split("\n"): the headers pushed, or the first fault
HeaderLoop(h) ==
    LET lines == Split(h, <<"\n">>)
        hs == [i \in 1..Len(lines) |-> HeaderOfLine(lines[i])]
    IN  IF \E i \in 1..Len(hs) : "kind" \in DOMAIN hs[i]
        THEN Panic("splitted_headers[1]")
        ELSE [kind |-> "Headers", headers |-> hs]

\* the reason taken from the last token in the place of the third
BuildResponseLastToken(status_line, headers, body) ==
    LET statuses == Split(status_line, <<" ">>)
    IN  IF Len(statuses) < 2 THEN Panic("statuses[1]")
        ELSE IF ParseU32(statuses[2]) = <<>> THEN Panic("parse().unwrap()")
        ELSE IF Len(statuses) < 3 THEN Panic("statuses[2]")
        ELSE [kind |-> "Ok",
              version |-> statuses[1],
              status_code |-> ParseU32(statuses[2]),
              reason |-> statuses[Len(statuses)],
              headers |-> headers,
              body |-> body]

\* a missing reason defaulted to the empty text in the place of statuses[2]
BuildResponseDefaultReason(status_line, headers, body) ==
    LET statuses == Split(status_line, <<" ">>)
    IN  IF Len(statuses) < 2 THEN Panic("statuses[1]")
        ELSE IF ParseU32(statuses[2]) = <<>> THEN Panic("parse().unwrap()")
        ELSE [kind |-> "Ok",
              version |-> statuses[1],
              status_code |-> ParseU32(statuses[2]),
              reason |-> IF Len(statuses) < 3 THEN <<>> ELSE statuses[3],
              headers |-> headers,
              body |-> body]

\* the struct literal of Ok(Self { .. }), its fields evaluated in order
BuildResponse(status_line, headers, body) ==
    LET statuses == Split(status_line, <<" ">>)
    IN  IF Len(statuses) < 2 THEN Panic("statuses[1]")
        ELSE IF ParseU32(statuses[2]) = <<>> THEN Panic("parse().unwrap()")
        ELSE IF Len(statuses) < 3 THEN Panic("statuses[2]")
        ELSE [kind |-> "Ok",
              version |-> statuses[1],
              status_code |-> ParseU32(statuses[2]),
              reason |-> statuses[3],
              headers |-> headers,
              body |-> body]

\* the body dropped when there is no blank-line separator
HeadersAndBodyDropsBody(remaining) ==
    LET second == SplitOnce(remaining, <<"\n", "\n">>)
    IN  IF second = <<>> THEN [kind |-> "Parts", headers |-> <<>>, body |-> <<>>]
        ELSE LET loop == HeaderLoop(second[1])
             IN  IF loop.kind = "Panic" THEN loop
                 ELSE [kind |-> "Parts", headers |-> loop.headers, body |-> second[2]]

\* let (headers, body) = match remaining.split_once("\n\n") { .. }
HeadersAndBody(remaining) ==
    LET second == SplitOnce(remaining, <<"\n", "\n">>)
    IN  IF second = <<>> THEN [kind |-> "Parts", headers |-> <<>>, body |-> remaining]
        ELSE LET loop == HeaderLoop(second[1])
             IN  IF loop.kind = "Panic" THEN loop
                 ELSE [kind |-> "Parts", headers |-> loop.headers, body |-> second[2]]

\* a text without '\n' taken as a status line with nothing after it
NewWithoutLineBreakCheck(r) ==
    LET preproccessed_response == Preprocess(r)
        first == SplitOnce(preproccessed_response, <<"\n">>)
        status_line == IF first = <<>> THEN preproccessed_response ELSE first[1]
        remaining == IF first = <<>> THEN <<>> ELSE first[2]
        parts == HeadersAndBody(remaining)
    IN  IF parts.kind = "Panic" THEN parts
        ELSE BuildResponse(status_line, parts.headers, parts.body)

\* HttpResponse::new
New(r) ==
    LET preproccessed_response == Preprocess(r)
        first == SplitOnce(preproccessed_response, <<"\n">>)
    IN  IF first = <<>> THEN NetworkError(preproccessed_response)
        ELSE
          LET status_line == first[1]
              remaining == first[2]
              parts == HeadersAndBody(remaining)
          IN  IF parts.kind = "Panic" THEN parts
              ELSE BuildResponse(status_line, parts.headers, parts.body)

NotFoundPrefix ==
    <<"f", "a", "i", "l", "e", "d", " ", "t", "o", " ", "f", "i", "n", "d", " ">>

NotFoundSuffix ==
    <<" ", "i", "n", " ", "h", "e", "a", "d", "e", "r", "s">>

\* the loop running on after a hit, so that the last hit wins
RECURSIVE ScanHeadersLast(_, _, _)
ScanHeadersLast(headers, name, i) ==
    IF i > Len(headers) THEN 0
    ELSE LET later == ScanHeadersLast(headers, name, i + 1)
         IN  IF later # 0 THEN later
             ELSE IF headers[i].name = name THEN i
             ELSE 0

\* the for loop of header_value from the i-th header on: 0 when it ends
\* without a hit, else the index of the header it returns from
RECURSIVE ScanHeaders(_, _, _)
ScanHeaders(headers, name, i) ==
    IF i > Len(headers) THEN 0
    ELSE IF headers[i].name = name THEN i
    ELSE ScanHeaders(headers, name, i + 1)

\* HttpResponse::header_value
HeaderValue(self, name) ==
    LET i == ScanHeaders(self.headers, name, 1)
    IN  IF i # 0
        THEN [kind |-> "Ok", name |-> name, value |-> self.headers[i].value]
        ELSE [kind |-> "Err", name |-> name,
              value |-> NotFoundPrefix \o name \o NotFoundSuffix]

\* the accessors: owned copies of the fields
version(self) == self.version

status_code(self) == self.status_code

reason(self) == self.reason

headers(self) == self.headers

body(self) == self.body

----------------------------------------------------------------------------
(* The inputs: every text over Alphabet up to MaxLen characters, and the   *)
(* texts made of a status line, up to MaxHeaderLines further lines and an  *)
(* ending.                                                                 *)

ShortTexts == UNION {[1..k -> Alphabet] : k \in 0..MaxLen}

StatusLines ==
    { <<"H", " ", "2", "0", "0", " ", "O", "K">>,
      <<"H", " ", "2", "0", "0", " ", "O", "K", " ", "X">>,
      <<"H", " ", "+", "7", " ", "O", "K">>,
      <<"H", " ", "4", "2", "9", "4", "9", "6", "7", "2", "9", "5", " ", "O", "K">>,
      <<"H", " ", "4", "2", "9", "4", "9", "6", "7", "2", "9", "6", " ", "O", "K">>,
      <<"H", " ", "x", " ", "O", "K">>,
      <<"H", " ", "2", "0", "0">>,
      <<"H", " ", "2", "0", "0", " ">>,
      <<"H", " ", " ", "2", "0", "0", " ", "O", "K">>,
      <<" ", "\n", "H", " ", "2", "0", "0", " ", "O", "K">>,
      <<"H", " ", "2", "0", "0", " ", "O", "K", "\r">> }

HeaderLines ==
    { <<"A", ":", "1">>,
      <<"A", ":", " ", "2", " ">>,
      <<" ", "B", " ", ":", "1">>,
      <<"a", ":", "1">>,
      <<"A", ":", "1", ":", "2">>,
      <<":", "1">>,
      <<"A", ":", "3", "\r">>,
      <<"A">>,
      <<>> }

Endings ==
    { <<>>,
      <<"\n">>,
      <<"\n", "\n">>,
      <<"\n", "\n", "b">>,
      <<"\n", "\r", "\n", "\r", "b">>,
      <<"\n", "\n", "b", "\n", "\n", "c">> }

\* the lines joined by "\n"
RECURSIVE Join(_)
Join(lines) ==
    IF lines = <<>> THEN <<>>
    ELSE IF Len(lines) = 1 THEN lines[1]
    ELSE lines[1] \o <<"\n">> \o Join(Tail(lines))

LineLists == UNION {[1..k -> HeaderLines] : k \in 0..MaxHeaderLines}

BuiltTexts ==
    { s \o <<"\n">> \o Join(ls) \o e :
        s \in StatusLines, ls \in LineLists, e \in Endings }

\* a status line alone is an input too (tests::test_invalid)
Inputs == ShortTexts \cup StatusLines \cup BuiltTexts

LookupNames == {<<"A">>, <<"B">>, <<"a">>, <<"1">>, <<>>}

----------------------------------------------------------------------------
(* The state machine: a caller holds a raw text, calls HttpResponse::new   *)
(* on it once, and calls header_value on a response it got.  pc is the     *)
(* caller's position: "start", "returned" (from new), "looked" (a          *)
(* header_value call returned).                                            *)

NoValue == [kind |-> "None"]

Init ==
    /\ raw \in Inputs
    /\ pc = "start"
    /\ res = NoValue
    /\ lookup = NoValue

\* let res = HttpResponse::new(raw)
CallNew ==
    /\ pc = "start"
    /\ res' = New(raw)
    /\ pc' = "returned"
    /\ UNCHANGED <<raw, lookup>>

\* res.header_value(name), res being Ok; the response can be asked again
CallHeaderValue(name) ==
    /\ pc \in {"returned", "looked"}
    /\ res.kind = "Ok"
    /\ lookup' = HeaderValue(res, name)
    /\ pc' = "looked"
    /\ UNCHANGED <<raw, res>>

Next ==
    \/ CallNew
    \/ \E name \in LookupNames : CallHeaderValue(name)

Spec == Init /\ [][Next]_vars

----------------------------------------------------------------------------
(* The vocabulary of the properties, stated by positions in the text       *)
(* rather than by the parser's own splitting.                              *)

Positions(s, c) == {i \in 1..Len(s) : s[i] = c}

Min(S) == CHOOSE i \in S : \A j \in S : i <= j

Max(S) == CHOOSE i \in S : \A j \in S : j <= i

\* the position of the n-th c of s; 0 before the first, Len(s) + 1 after the last
NthPos(s, c, n) ==
    LET ps == Positions(s, c)
    IN  IF n = 0 THEN 0
        ELSE IF n > Cardinality(ps) THEN Len(s) + 1
        ELSE CHOOSE i \in ps : Cardinality({j \in ps : j < i}) = n - 1

\* the number of c-delimited pieces of s, and the n-th of them
NumPieces(s, c) == Cardinality(Positions(s, c)) + 1

Piece(s, c, n) == SubSeq(s, NthPos(s, c, n - 1) + 1, NthPos(s, c, n) - 1)

\* s without its surrounding whitespace
Stripped(s) ==
    LET solid == {i \in 1..Len(s) : ~IsWhitespace(s[i])}
    IN  IF solid = {} THEN <<>> ELSE SubSeq(s, Min(solid), Max(solid))

\* n occurs in s
Contains(s, n) ==
    \E i \in 1..(Len(s) - Len(n) + 1) : SubSeq(s, i, i + Len(n) - 1) = n

\* the positions at which a blank-line separator "\n\n" starts
BlankLines(s) == {i \in 1..(Len(s) - 1) : s[i] = "\n" /\ s[i + 1] = "\n"}

\* tok without a leading '+' and without leading zeros
RECURSIVE NoLeadingZeros(_)
NoLeadingZeros(ds) ==
    IF Len(ds) > 1 /\ Head(ds) = "0" THEN NoLeadingZeros(Tail(ds)) ELSE ds

Canonical(tok) ==
    NoLeadingZeros(IF tok # <<>> /\ Head(tok) = "+" THEN Tail(tok) ELSE tok)

U32MaxDecimal == <<"4", "2", "9", "4", "9", "6", "7", "2", "9", "5">>

\* digit strings of one length compared as numbers
NotAbove(a, b) ==
    \/ a = b
    \/ \E i \in 1..Len(a) :
         /\ SubSeq(a, 1, i - 1) = SubSeq(b, 1, i - 1)
         /\ DigitValue(a[i]) < DigitValue(b[i])

\* tok is the decimal text of an unsigned integer of 32 bits
IsU32Text(tok) ==
    LET ds == IF tok # <<>> /\ Head(tok) = "+" THEN Tail(tok) ELSE tok
        c == NoLeadingZeros(ds)
    IN  /\ ds # <<>>
        /\ \A i \in 1..Len(ds) : ds[i] \in Digits
        /\ \/ Len(c) < Len(U32MaxDecimal)
           \/ Len(c) = Len(U32MaxDecimal) /\ NotAbove(c, U32MaxDecimal)

DigitChar(d) == <<"0", "1", "2", "3", "4", "5", "6", "7", "8", "9">>[d + 1]

\* the decimal text of the u32 <<hi, lo>>
RECURSIVE DecimalOf(_)
DecimalOf(n) ==
    LET t == (n[1] % 10) * LimbBase + n[2]
    IN  IF n[1] = 0 /\ n[2] < 10 THEN <<DigitChar(n[2])>>
        ELSE DecimalOf(<<n[1] \div 10, t \div 10>>) \o <<DigitChar(t % 10)>>

\* the text HttpResponse::new works on, its first line and what follows it
Normalized == Preprocess(raw)

HasLineBreak == Positions(Normalized, "\n") # {}

StatusLineOf == LET t == Normalized IN SubSeq(t, 1, NthPos(t, "\n", 1) - 1)

RemainingOf == LET t == Normalized IN SubSeq(t, NthPos(t, "\n", 1) + 1, Len(t))

HasHeaderBlock == HasLineBreak /\ BlankLines(RemainingOf) # {}

HeaderBlockOf == LET r == RemainingOf IN SubSeq(r, 1, Min(BlankLines(r)) - 1)

\* a status line of exactly three tokens, none empty, the second one a u32
WellFormedStatusLine(line) ==
    /\ NumPieces(line, " ") = 3
    /\ \A k \in 1..3 : Piece(line, " ", k) # <<>>
    /\ IsU32Text(Piece(line, " ", 2))

Returned == pc = "returned"

Succeeded == pc = "returned" /\ res.kind = "Ok"

----------------------------------------------------------------------------
(* The properties.                                                         *)

\* C1: a raw text without any '\n' makes HttpResponse::new return
\* Err(Error::Network(..)), whatever else it contains.
C1_NoLineBreakIsNetworkError ==
    (Returned /\ Positions(raw, "\n") = {})
        => res.kind = "Err" /\ res.error = "Network"

C1_Witness ==
    /\ Returned
    /\ raw = <<"H", " ", "2", "0", "0", " ", "O", "K">>
    /\ res.kind = "Err"

\* C2: when HttpResponse::new succeeds, version() is the first
\* space-delimited token of the first line of the normalized text,
\* status_code() the numeric value of the second and reason() the third,
\* whatever headers and body follow.
C2_StatusLineFields ==
    Succeeded =>
        LET line == StatusLineOf
        IN  /\ version(res) = Piece(line, " ", 1)
            /\ DecimalOf(status_code(res)) = Canonical(Piece(line, " ", 2))
            /\ reason(res) = Piece(line, " ", 3)

C2_Witness ==
    /\ Succeeded
    /\ NumPieces(StatusLineOf, " ") > 3
    /\ status_code(res) = <<0, 200>>
    /\ headers(res) # <<>>
    /\ body(res) # <<>>

\* C3: a raw text S + "\n\n", S a well-formed status line, parses to a
\* response with no headers and an empty body.
C3_StatusLineOnly ==
    ( /\ Returned
      /\ Len(raw) >= 2
      /\ SubSeq(raw, Len(raw) - 1, Len(raw)) = <<"\n", "\n">>
      /\ WellFormedStatusLine(SubSeq(raw, 1, Len(raw) - 2))
      /\ Positions(SubSeq(raw, 1, Len(raw) - 2), "\n") = {} )
        => /\ res.kind = "Ok"
           /\ headers(res) = <<>>
           /\ body(res) = <<>>

\* C4: header_value(n) on a parsed response is Ok with the value of the
\* first header named exactly n when there is one, and otherwise Err with
\* a message that contains n.
C4_HeaderValueFirstMatch ==
    (pc = "looked") =>
        LET hits == {i \in 1..Len(res.headers) : res.headers[i].name = lookup.name}
        IN  IF hits # {}
            THEN lookup.kind = "Ok" /\ lookup.value = res.headers[Min(hits)].value
            ELSE lookup.kind = "Err" /\ Contains(lookup.value, lookup.name)

C4_Witness ==
    /\ pc = "looked"
    /\ lookup.kind = "Ok"
    /\ \E i, j \in 1..Len(res.headers) :
         /\ i < j
         /\ res.headers[i].name = lookup.name
         /\ res.headers[j].name = lookup.name
         /\ res.headers[i].value # res.headers[j].value

\* C5: when HttpResponse::new succeeds on a text with a blank-line
\* separator after the status line, headers() holds one header per line of
\* the header block, in line order, duplicates kept, the name being the
\* trimmed text before the line's first ':' and the value the trimmed text
\* after it.
C5_HeadersInOrder ==
    (Succeeded /\ HasHeaderBlock) =>
        LET block == HeaderBlockOf
        IN  /\ Len(headers(res)) = NumPieces(block, "\n")
            /\ \A k \in 1..Len(headers(res)) :
                 LET line == Piece(block, "\n", k)
                     colon == NthPos(line, ":", 1)
                 IN  /\ colon <= Len(line)
                     /\ headers(res)[k].name = Stripped(SubSeq(line, 1, colon - 1))
                     /\ headers(res)[k].value =
                            Stripped(SubSeq(line, colon + 1, Len(line)))

C5_Witness ==
    /\ Succeeded
    /\ HasHeaderBlock
    /\ headers(res) = <<Header(<<"A">>, <<"2">>), Header(<<"A">>, <<"1", ":", "2">>)>>

\* C6: HttpResponse::new returns Ok or a typed Err for every raw text;
\* malformed input never causes an uncontrolled fault.
C6_NoUncontrolledFault ==
    Returned => res.kind \in {"Ok", "Err"}

\* C7: with a line break, no blank-line separator in what follows the
\* first line, and a well-formed status line, HttpResponse::new succeeds
\* with no headers and the whole of what follows as the body.
C7_NoSeparatorAllBody ==
    ( /\ Returned
      /\ HasLineBreak
      /\ WellFormedStatusLine(StatusLineOf)
      /\ ~HasHeaderBlock )
        => /\ res.kind = "Ok"
           /\ headers(res) = <<>>
           /\ body(res) = RemainingOf

C7_Witness ==
    /\ Succeeded
    /\ WellFormedStatusLine(StatusLineOf)
    /\ ~HasHeaderBlock
    /\ headers(res) = <<>>
    /\ body(res) = <<"A", ":", "1", "\n", "A">>

\* C8: with a header block, every empty line of it is skipped: it gives no
\* header and no fault, and only the non-empty lines give headers.
C8_EmptyHeaderLinesSkipped ==
    (Returned /\ HasHeaderBlock /\ WellFormedStatusLine(StatusLineOf)) =>
        LET block == HeaderBlockOf
            lines == [k \in 1..NumPieces(block, "\n") |-> Piece(block, "\n", k)]
        IN  (\A k \in 1..Len(lines) :
                lines[k] # <<>> => Positions(lines[k], ":") # {})
            => /\ res.kind = "Ok"
               /\ Len(headers(res)) =
                    Cardinality({k \in 1..Len(lines) : lines[k] # <<>>})

\* C9 as stated: HttpResponse::new succeeds only if the status line splits
\* on single spaces into exactly three tokens.
C9_ExactlyThreeTokens ==
    Succeeded => NumPieces(StatusLineOf, " ") = 3

\* C9 as amended: HttpResponse::new succeeds only if the status line splits
\* on single spaces into at least three tokens.
C9_AtLeastThreeTokens ==
    Succeeded => NumPieces(StatusLineOf, " ") >= 3

C9_Witness ==
    /\ Succeeded
    /\ NumPieces(StatusLineOf, " ") = 4
    /\ reason(res) = <<"O", "K">>

\* C10: in a parsed response no header name has a ':' or a '\n', no header
\* value has a '\n', neither has leading or trailing whitespace, and
\* version() and reason() have no space and no '\n'.
C10_FieldShapes ==
    Succeeded =>
        /\ \A i \in 1..Len(headers(res)) :
             LET h == headers(res)[i]
             IN  /\ Positions(h.name, ":") = {}
                 /\ Positions(h.name, "\n") = {}
                 /\ Positions(h.value, "\n") = {}
                 /\ h.name = <<>> \/ ~IsWhitespace(h.name[1])
                 /\ h.name = <<>> \/ ~IsWhitespace(h.name[Len(h.name)])
                 /\ h.value = <<>> \/ ~IsWhitespace(h.value[1])
                 /\ h.value = <<>> \/ ~IsWhitespace(h.value[Len(h.value)])
        /\ Positions(version(res), " ") = {}
        /\ Positions(version(res), "\n") = {}
        /\ Positions(reason(res), " ") = {}
        /\ Positions(reason(res), "\n") = {}

C10_Witness ==
    /\ Succeeded
    /\ \E i \in 1..Len(headers(res)) :
         headers(res)[i] = Header(<<"B">>, <<"1">>)
    /\ \E i \in 1..Len(headers(res)) :
         headers(res)[i] = Header(<<"A">>, <<"3">>)

====
